---- MODULE Spec2Model ----
(***************************************************************************)
(* GhostbusterX: the Game engine of src/backend/game_logic.py (the live    *)
(* third version, lines 612-915; the two earlier versions in the file are  *)
(* string literals) driven through its public calls and through the        *)
(* GameWindow handlers of src/frontend/game_window.py.                     *)
(*                                                                         *)
(* Probabilities are exact rationals.  Every update of the code acts on    *)
(* all cells with the same divisor, so the distribution is kept as one     *)
(* record [num |-> numerator per cell, den |-> common denominator] and     *)
(* cell.probability = num[cell] / den, in lowest common terms.             *)
(***************************************************************************)
EXTENDS Integers, FiniteSets, Sequences, TLC

\* ---------------------------------------------------------------- bounds
\* The backend grid is 10x10 in the source; the model scales it down.
GRID_SIZE == 3
\* The GameWindow builds its own, smaller, button grid (8x8 in the source,
\* two less than the backend's); the model keeps it smaller than GRID_SIZE.
UI_GRID_SIZE == 2
\* A direct inquire_cell call takes effect while fewer than this many cells are
\* inquired; the clicks of the GameWindow are bounded by its buttons.
MaxInquiries == 3
\* The grid of the runs that look at one inquiry only: wide enough for cells
\* more than two steps away from the ghost.
WIDE_GRID_SIZE == 4
\* The grid of the runs in which every cell gets inquired.
SMALL_GRID_SIZE == 2
\* Two games given the same calls are followed for this many inquiries.
MaxPairInquiries == 3

\* The largest budget a Ghost of ghost.py is given.
MaxMovesLeft == 2

\* ------------------------------------------------------ program constants
NEARBY_DISTANCE == 1
\* MOVE_NEARBY_THRESHOLD = 0.8, as the fraction THRESHOLD_NUM / TENTHS
THRESHOLD_NUM == 8
\* region_boost = 1.5 and outside_decrease = 0.8, in tenths
REGION_BOOST_TENTHS == 15
OUTSIDE_DECREASE_TENTHS == 8
TENTHS == 10
\* Ghost.__init__(..., moves_left=3)
MOVES_LEFT_DEFAULT == 3
\* 1e-12 = 1 / (EPS_ROOT_INV * EPS_ROOT_INV)
EPS_ROOT_INV == 1000000

\* Python's None where a cell or a position is expected.
None == <<>>

\* What a call returned: a Python bool, or "None" for a method without a value.
PyBool(b) == IF b THEN "True" ELSE "False"

\* ----------------------------------------------------------------- state
VARIABLES
  inquired,            \* Cell.inquired, per coordinate
  color,               \* Cell.color, per coordinate
  probability,         \* Cell.probability, per coordinate: [num, den]
  possible_positions,  \* Game.possible_positions
  ghost,               \* (Ghost.x, Ghost.y)
  moves_left,          \* Ghost.moves_left
  burst_mode,          \* Game.burst_mode
  grid_disabled,       \* GameWindow: the cell buttons are DISABLED
  burst_result,        \* history: outcome of the game's first attempt in burst mode
  relocations,         \* history: inquire_cell calls of this game that moved the ghost
  grid_size,           \* Grid.size (and Ghost.grid_size in ghost.py)
  call,                \* the last call: [name, arg]; for a cell click, the
                       \* backend call the click made
  ret,                 \* what the last call returned
  raised,              \* the exception the last call raised, or "none"
  twin                 \* a second Game given the same calls (its state and
                       \* last return value), or None when there is none

gameVars == <<inquired, color, probability, possible_positions, ghost, moves_left, burst_mode>>
vars == <<inquired, color, probability, possible_positions, ghost, moves_left,
          burst_mode, grid_disabled, burst_result, relocations, grid_size, call, ret, raised,
          twin>>

\* --------------------------------------------------------------- helpers
Abs(n) == IF n < 0 THEN -n ELSE n

RECURSIVE GCD(_, _)
GCD(a, b) == IF b = 0 THEN a ELSE GCD(b, a % b)

Range(n) == 0 .. (n - 1)

\* All coordinates of the backend grid (Grid.cells).
Coords == Range(grid_size) \X Range(grid_size)

\* Coordinates that have a button in the GameWindow.
ButtonCoords == Range(UI_GRID_SIZE) \X Range(UI_GRID_SIZE)

\* Representatives of out-of-range arguments (negative and too large).
OutOfRange == {<<-1, 0>>, <<0, grid_size>>}

\* Arguments a caller of the backend may pass.
Inputs == Coords \cup OutOfRange

\* The members of a list.
Elements(q) == {q[k] : k \in 1 .. Len(q)}

RECURSIVE SumOver(_, _)
SumOver(f, S) ==
  IF S = {} THEN 0
  ELSE LET c == CHOOSE x \in S : TRUE IN f[c] + SumOver(f, S \ {c})

RECURSIVE GCDOver(_, _)
GCDOver(f, S) ==
  IF S = {} THEN 0
  ELSE LET c == CHOOSE x \in S : TRUE IN GCD(f[c], GCDOver(f, S \ {c}))

\* The same distribution in lowest common terms.
Reduce(P) ==
  LET g == GCD(P.den, GCDOver(P.num, Coords))
  IN IF g <= 1 THEN P
     ELSE [num |-> [c \in Coords |-> P.num[c] \div g], den |-> P.den \div g]

\* Sum of cell.probability over grid.all_cells(), as the pair <<n, d>>.
Total(P) == <<SumOver(P.num, Coords), P.den>>

\* n / d < 1e-12, for n >= 0 and d > 0, without leaving 32-bit integers:
\* n / d < 10^-12  <=>  d - 1 >= n * 10^12  <=>  (d - 1) \div n >= 10^12.
BelowEps(n, d) ==
  \/ n = 0
  \/ (((d - 1) \div n) \div EPS_ROOT_INV) >= EPS_ROOT_INV

\* ------------------------------------------------------------------ Grid
\* Grid.get_cell: the cell, or None when out of range.
get_cell(row, col) ==
  IF 0 <= row /\ row < grid_size /\ 0 <= col /\ col < grid_size
  THEN <<row, col>> ELSE None

\* Grid.get_nearby_cells: the in-range cells of the block around (row, col),
\* centre excluded.
get_nearby_cells(row, col, distance) ==
  {c \in ((row - distance) .. (row + distance)) \X ((col - distance) .. (col + distance)) :
     c # <<row, col>> /\ get_cell(c[1], c[2]) # None}

\* ----------------------------------------------------------------- Ghost
\* Ghost.position
position == ghost

\* Ghost.can_move
can_move(ml) == ml > 0

\* Mutant of move: the budget is not charged.
move_free(g, ml, inq) ==
  IF ml <= 0 THEN {<<g, ml>>}
  ELSE LET candidates == {c \in Coords : c # g /\ ~inq[c]}
       IN IF candidates = {} THEN {<<g, ml>>}
          ELSE {<<c, ml>> : c \in candidates}

\* Mutant of move: with no free cell the ghost lands on any other cell.
move_fallback(g, ml, inq) ==
  IF ml <= 0 THEN {<<g, ml>>}
  ELSE LET candidates == {c \in Coords : c # g /\ ~inq[c]}
       IN IF candidates = {} THEN {<<c, ml - 1>> : c \in Coords \ {g}}
          ELSE {<<c, ml - 1>> : c \in candidates}

\* Mutant of move: the ghost's own cell is a candidate.
move_may_stay(g, ml, inq) ==
  IF ml <= 0 THEN {<<g, ml>>}
  ELSE LET candidates == {c \in Coords : c = g \/ ~inq[c]}
       IN {<<c, ml - 1>> : c \in candidates}

\* Ghost.move (game_logic.py): the outcomes <<position, moves_left>> of one
\* call; random.choice is any member of the candidate list.
move(g, ml, inq) ==
  IF ml <= 0 THEN {<<g, ml>>}
  ELSE LET candidates == {c \in Coords : c # g /\ ~inq[c]}
       IN IF candidates = {} THEN {<<g, ml>>}
          ELSE {<<c, ml - 1>> : c \in candidates}

\* ------------------------------------------------------------------ Game
\* Mutant of is_ghost_nearby: cells up to three steps away count as nearby.
is_ghost_nearby_wide(g, row, col) ==
  Abs(g[1] - row) <= NEARBY_DISTANCE + 2 /\ Abs(g[2] - col) <= NEARBY_DISTANCE + 2

\* Game.is_ghost_nearby
is_ghost_nearby(g, row, col) ==
  Abs(g[1] - row) <= NEARBY_DISTANCE /\ Abs(g[2] - col) <= NEARBY_DISTANCE

\* The colour inquire_cell writes to the inquired cell.
inquiry_color(g, row, col) ==
  IF <<row, col>> = g THEN "red"
  ELSE IF is_ghost_nearby(g, row, col) THEN "orange"
  ELSE "green"

\* Mutant of apply_constraints: a red inquiry does not narrow the set.
apply_constraints_red_kept(pp, row, col, clr) ==
  IF clr = "red" THEN pp
  ELSE LET neighbor_coords == get_nearby_cells(row, col, 1)
           clicked_coord == <<row, col>>
       IN IF clr = "orange" THEN pp \cap neighbor_coords
          ELSE IF clr = "green" THEN pp \ (neighbor_coords \cup {clicked_coord})
          ELSE pp

\* Mutant of apply_constraints: orange and green exchanged.
apply_constraints_swapped(pp, row, col, clr) ==
  IF clr = "red" THEN {<<row, col>>}
  ELSE LET neighbor_coords == get_nearby_cells(row, col, 1)
           clicked_coord == <<row, col>>
       IN IF clr = "green" THEN pp \cap neighbor_coords
          ELSE IF clr = "orange" THEN pp \ (neighbor_coords \cup {clicked_coord})
          ELSE pp

\* Mutant of apply_constraints: green does not remove the inquired cell.
apply_constraints_green_neighbors(pp, row, col, clr) ==
  IF clr = "red" THEN {<<row, col>>}
  ELSE LET neighbor_coords == get_nearby_cells(row, col, 1)
       IN IF clr = "orange" THEN pp \cap neighbor_coords
          ELSE IF clr = "green" THEN pp \ neighbor_coords
          ELSE pp

\* Game.apply_constraints: the new possible_positions.
apply_constraints(pp, row, col, clr) ==
  IF clr = "red" THEN {<<row, col>>}
  ELSE LET neighbor_coords == get_nearby_cells(row, col, 1)
           clicked_coord == <<row, col>>
       IN IF clr = "orange" THEN pp \cap neighbor_coords
          ELSE IF clr = "green" THEN pp \ (neighbor_coords \cup {clicked_coord})
          ELSE pp

\* The ghost's 3x3 block, clipped to the grid (the ghost's cell included).
ghost_region(g) ==
  {c \in ((g[1] - 1) .. (g[1] + 1)) \X ((g[2] - 1) .. (g[2] + 1)) :
     get_cell(c[1], c[2]) # None}

\* Mutant of region_weights: cells outside possible_positions are not zeroed.
region_weights_no_zero(P, pp, g) ==
  Reduce([num |-> [c \in Coords |->
                     IF c \in ghost_region(g) THEN P.num[c] * REGION_BOOST_TENTHS
                     ELSE P.num[c] * OUTSIDE_DECREASE_TENTHS],
          den |-> P.den * TENTHS])

\* apply_region_based_probabilities, first loop: cells outside
\* possible_positions are zeroed, cells of the ghost's region are boosted,
\* the others decreased.
region_weights(P, pp, g) ==
  Reduce([num |-> [c \in Coords |->
                     IF c \notin pp THEN 0
                     ELSE IF c \in ghost_region(g) THEN P.num[c] * REGION_BOOST_TENTHS
                     ELSE P.num[c] * OUTSIDE_DECREASE_TENTHS],
          den |-> P.den * TENTHS])

\* Mutant of normalize: no fallback when the total is below 1e-12.
normalize_no_fallback(W, pp) ==
  LET total == Total(W)
  IN IF BelowEps(total[1], total[2]) THEN W
     ELSE Reduce([num |-> W.num, den |-> total[1]])

\* apply_region_based_probabilities, normalisation: uniform over
\* possible_positions when the total is below 1e-12 (nothing when the set is
\* empty), else every positive probability divided by the total (a zero
\* stays zero, so the total becomes the common denominator).
normalize(W, pp) ==
  LET total == Total(W)
      count == Cardinality(pp)
  IN IF BelowEps(total[1], total[2])
     THEN IF count = 0 THEN W
          ELSE [num |-> [c \in Coords |-> IF c \in pp THEN 1 ELSE W.num[c]],
                den |-> count]
     ELSE Reduce([num |-> W.num, den |-> total[1]])

\* Game.apply_region_based_probabilities: the new distribution.
apply_region_based_probabilities(P, pp, g) ==
  normalize(region_weights(P, pp, g), pp)

\* Mutant of reset_possible_positions: the old red cell is put back too.
reset_possible_positions_all(row, col, clr) ==
  Coords

\* attempt_ghost_move after a relocation: possible_positions is reset to all
\* cells, without the inquired cell when that cell is red.
reset_possible_positions(row, col, clr) ==
  IF clr[<<row, col>>] = "red" THEN Coords \ {<<row, col>>} ELSE Coords

\* Mutant of keep_color: a relocation clears the colours of the grid.
keep_color_cleared(row, col, clr) == [c \in Coords |-> "neutral"]

\* attempt_ghost_move after a relocation: the inquired cell keeps its colour
\* (a red cell stays red).
keep_color(row, col, clr) == clr

\* Game.attempt_ghost_move, called with the state inquire_cell has reached:
\* the outcomes [ghost, moves_left, color, possible_positions, probability, ret].
attempt_ghost_move(row, col, g, ml, inq, clr, pp, P) ==
  LET stay == [ghost |-> g, moves_left |-> ml, color |-> clr,
               possible_positions |-> pp,
               probability |-> P, ret |-> PyBool(FALSE)]
  IN IF ~can_move(ml) THEN {stay}
     ELSE
       LET neighbors == get_nearby_cells(row, col, 1)
           inquired_count == Cardinality({n \in neighbors : inq[n]})
           threshold == (THRESHOLD_NUM * Cardinality(neighbors)) \div TENTHS
       IN IF clr[<<row, col>>] = "red"
             \/ (inquired_count >= threshold /\ Cardinality(neighbors) > 0)
          THEN {IF m[1] # g
                THEN LET pp2 == reset_possible_positions(row, col, clr)
                     IN [ghost |-> m[1], moves_left |-> m[2],
                         color |-> keep_color(row, col, clr),
                         possible_positions |-> pp2,
                         probability |-> apply_region_based_probabilities(P, pp2, m[1]),
                         ret |-> PyBool(TRUE)]
                ELSE [stay EXCEPT !.moves_left = m[2]]
                : m \in move(g, ml, inq)}
          ELSE {stay}

\* round(n / d, 2) in hundredths, ties to even.
Round2(n, d) ==
  LET q == (100 * n) \div d
      r == (100 * n) % d
  IN IF 2 * r > d THEN q + 1
     ELSE IF 2 * r < d THEN q
     ELSE IF q % 2 = 0 THEN q ELSE q + 1

\* Mutant of game_status: the position is handed out in every mode.
game_status_leaky ==
  [ghost_position |-> position,
   ghost_moves_left |-> moves_left,
   burst_mode |-> burst_mode,
   grid |-> [c \in Coords |-> [inquired |-> inquired[c], color |-> color[c],
                               probability |-> Round2(probability.num[c], probability.den)]]]

\* Game.game_status of a game in state G with the given burst_mode: the
\* snapshot handed to the UI; probabilities in hundredths.
game_status_of(G, bm) ==
  [ghost_position |-> IF bm THEN G.ghost ELSE None,
   ghost_moves_left |-> G.moves_left,
   burst_mode |-> bm,
   grid |-> [c \in Coords |-> [inquired |-> G.inquired[c], color |-> G.color[c],
                               probability |-> Round2(G.probability.num[c], G.probability.den)]]]

\* Game.game_status of the game.
game_status ==
  game_status_of([inquired |-> inquired, color |-> color, probability |-> probability,
                  ghost |-> position, moves_left |-> moves_left], burst_mode)

\* ------------------------------------------------------------------ Init
\* Game.__init__: a fresh grid, a ghost anywhere, every position possible.
GameInit(size) ==
  /\ grid_size = size
  /\ inquired = [c \in Coords |-> FALSE]
  /\ color = [c \in Coords |-> "neutral"]
  /\ probability = [num |-> [c \in Coords |-> 1], den |-> grid_size * grid_size]
  /\ possible_positions = Coords
  /\ ghost \in Coords
  /\ moves_left = MOVES_LEFT_DEFAULT
  /\ burst_mode = FALSE
  /\ grid_disabled = FALSE
  /\ burst_result = "none"
  /\ relocations = 0
  /\ call = [name |-> "__init__", arg |-> <<>>]
  /\ ret = "None"
  /\ raised = "none"

\* Game() on the model's grid.
Init == GameInit(GRID_SIZE) /\ twin = None

\* --------------------------------------------------------------- actions
\* Mutant of rejected: a cell that is already inquired is inquired again.
rejected_only_out_of_range(inq, row, col) ==
  get_cell(row, col) = None

\* inquire_cell's early return: no such cell, or the cell is already inquired.
rejected(inq, row, col) ==
  get_cell(row, col) = None \/ inq[<<row, col>>]

\* Mutant of mark_inquired: the flag is not set.
mark_inquired_forgotten(inq, cell) == inq

\* inquire_cell: cell.inquired = True
mark_inquired(inq, cell) == [inq EXCEPT ![cell] = TRUE]

\* The state of one Game that inquire_cell reads and writes.
GameState ==
  [inquired |-> inquired, color |-> color, possible_positions |-> possible_positions,
   probability |-> probability, ghost |-> ghost, moves_left |-> moves_left]

\* Game.inquire_cell(row, col) on the game state G: the outcomes, each the
\* state on return with the value returned.
inquire_cell_outcomes(row, col, G) ==
  IF rejected(G.inquired, row, col)
  THEN {[inquired |-> G.inquired, color |-> G.color,
         possible_positions |-> G.possible_positions, probability |-> G.probability,
         ghost |-> G.ghost, moves_left |-> G.moves_left, ret |-> PyBool(FALSE)]}
  ELSE LET cell == <<row, col>>
           inq1 == mark_inquired(G.inquired, cell)
           clr1 == [G.color EXCEPT ![cell] = inquiry_color(G.ghost, row, col)]
           pp1 == apply_constraints(G.possible_positions, row, col, clr1[cell])
           P1 == apply_region_based_probabilities(G.probability, pp1, G.ghost)
       IN {[inquired |-> inq1, color |-> o.color,
            possible_positions |-> o.possible_positions, probability |-> o.probability,
            ghost |-> o.ghost, moves_left |-> o.moves_left, ret |-> o.ret] :
             o \in attempt_ghost_move(row, col, G.ghost, G.moves_left, inq1, clr1, pp1, P1)}

\* The state change of Game.inquire_cell(row, col) and its return value.
inquire_cell_effect(row, col) ==
  /\ \E o \in inquire_cell_outcomes(row, col, GameState) :
       /\ inquired' = o.inquired
       /\ color' = o.color
       /\ possible_positions' = o.possible_positions
       /\ probability' = o.probability
       /\ ghost' = o.ghost
       /\ moves_left' = o.moves_left
       /\ ret' = o.ret
       /\ relocations' = IF o.ghost # ghost THEN relocations + 1 ELSE relocations
  /\ UNCHANGED burst_mode

\* Mutant of burst_mode_attempt_effect: only the row is compared.
burst_mode_attempt_effect_row(row, col) ==
  /\ ret' = PyBool(row = position[1])
  /\ burst_result' = IF burst_result # "none" \/ ~burst_mode THEN burst_result
                     ELSE IF <<row, col>> = position THEN "won" ELSE "lost"
  /\ UNCHANGED <<gameVars, relocations>>

\* The state change of Game.burst_mode_attempt(row, col) and its return value.
burst_mode_attempt_effect(row, col) ==
  /\ ret' = PyBool(<<row, col>> = position)
  /\ burst_result' = IF burst_result # "none" \/ ~burst_mode THEN burst_result
                     ELSE IF <<row, col>> = position THEN "won" ELSE "lost"
  /\ UNCHANGED <<gameVars, relocations>>

\* Game.inquire_cell called by any client of the backend.
inquire_cell_unbounded(row, col) ==
  /\ inquire_cell_effect(row, col)
  /\ call' = [name |-> "inquire_cell", arg |-> <<row, col>>]
  /\ UNCHANGED <<grid_disabled, burst_result, grid_size, raised, twin>>

\* The same call, taking effect on at most MaxInquiries cells.
inquire_cell(row, col) ==
  /\ ~rejected(inquired, row, col)
       => Cardinality({c \in Coords : inquired[c]}) < MaxInquiries
  /\ inquire_cell_unbounded(row, col)

\* Game.burst_mode_attempt called by any client of the backend.
burst_mode_attempt(row, col) ==
  /\ burst_mode_attempt_effect(row, col)
  /\ call' = [name |-> "burst_mode_attempt", arg |-> <<row, col>>]
  /\ UNCHANGED <<grid_disabled, grid_size, raised, twin>>

\* Mutant of switch_to_burst_mode: the flag is toggled.
switch_to_burst_mode_toggle ==
  /\ burst_mode' = ~burst_mode
  /\ call' = [name |-> "switch_to_burst_mode", arg |-> <<>>]
  /\ ret' = "None"
  /\ UNCHANGED <<inquired, color, probability, possible_positions, ghost, moves_left,
                 grid_disabled, burst_result, relocations, grid_size, raised, twin>>

\* Game.switch_to_burst_mode
switch_to_burst_mode ==
  /\ burst_mode' = TRUE
  /\ call' = [name |-> "switch_to_burst_mode", arg |-> <<>>]
  /\ ret' = "None"
  /\ UNCHANGED <<inquired, color, probability, possible_positions, ghost, moves_left,
                 grid_disabled, burst_result, relocations, grid_size, raised, twin>>

\* GameWindow.cell_clicked: a click on an enabled cell button.
cell_clicked(row, col) ==
  /\ ~grid_disabled
  /\ IF burst_mode
     THEN /\ burst_mode_attempt_effect(row, col)
          /\ call' = [name |-> "burst_mode_attempt", arg |-> <<row, col>>]
          /\ grid_disabled' = TRUE
     ELSE /\ inquire_cell_effect(row, col)
          /\ call' = [name |-> "inquire_cell", arg |-> <<row, col>>]
          /\ UNCHANGED <<grid_disabled, burst_result>>
  /\ UNCHANGED <<grid_size, raised, twin>>

\* GameWindow.activate_burst_mode: the Burst Mode button.
activate_burst_mode ==
  /\ burst_mode' = ~burst_mode
  /\ call' = [name |-> "activate_burst_mode", arg |-> <<>>]
  /\ ret' = "None"
  /\ UNCHANGED <<inquired, color, probability, possible_positions, ghost, moves_left,
                 grid_disabled, burst_result, relocations, grid_size, raised, twin>>

\* GameWindow.restart_game: a new Game, every cell button enabled again.
restart_game ==
  /\ inquired' = [c \in Coords |-> FALSE]
  /\ color' = [c \in Coords |-> "neutral"]
  /\ probability' = [num |-> [c \in Coords |-> 1], den |-> grid_size * grid_size]
  /\ possible_positions' = Coords
  /\ ghost' \in Coords
  /\ moves_left' = MOVES_LEFT_DEFAULT
  /\ burst_mode' = FALSE
  /\ grid_disabled' = FALSE
  /\ burst_result' = "none"
  /\ relocations' = 0
  /\ call' = [name |-> "restart_game", arg |-> <<>>]
  /\ ret' = "None"
  /\ UNCHANGED <<grid_size, raised, twin>>

\* The backend under direct calls of a client in Inquiry play.
Next ==
  \/ \E a \in Inputs : inquire_cell(a[1], a[2])
  \/ switch_to_burst_mode

Spec == Init /\ [][Next]_vars

\* The game as the GameWindow drives it, with a client that may also call the
\* backend's burst methods directly.
NextWindow ==
  \/ \E a \in ButtonCoords : cell_clicked(a[1], a[2])
  \/ activate_burst_mode
  \/ restart_game
  \/ switch_to_burst_mode
  \/ \E a \in Inputs : burst_mode_attempt(a[1], a[2])

SpecWindow == Init /\ [][NextWindow]_vars

\* The first inquire_cell call of a game on the wide grid.
first_inquire_cell(row, col) ==
  /\ \A c \in Coords : ~inquired[c]
  /\ inquire_cell(row, col)

InitWide == GameInit(WIDE_GRID_SIZE) /\ twin = None

NextWide == \E a \in Inputs : first_inquire_cell(a[1], a[2])

SpecWide == InitWide /\ [][NextWide]_vars

\* A game on a grid small enough to be inquired whole, with no bound on the
\* inquire_cell calls.
InitSmall == GameInit(SMALL_GRID_SIZE) /\ twin = None

NextSmall == \E a \in Inputs : inquire_cell_unbounded(a[1], a[2])

SpecSmall == InitSmall /\ [][NextSmall]_vars

\* Two games that differ in the ghost's position only.
InitPair ==
  /\ GameInit(GRID_SIZE)
  /\ twin \in {[inquired |-> inquired, color |-> color,
                 possible_positions |-> possible_positions, probability |-> probability,
                 ghost |-> g, moves_left |-> moves_left, ret |-> ret] :
                g \in Coords \ {ghost}}

\* inquire_cell(row, col) called on both games, with the same colours and the
\* same return value in both.
pair_inquire_cell(row, col) ==
  /\ ~rejected(inquired, row, col)
       => Cardinality({c \in Coords : inquired[c]}) < MaxPairInquiries
  /\ inquire_cell_effect(row, col)
  /\ call' = [name |-> "inquire_cell", arg |-> <<row, col>>]
  /\ \E o \in inquire_cell_outcomes(row, col, twin) :
       /\ twin' = o
       /\ o.color = color'
       /\ o.ret = ret'
  /\ UNCHANGED <<grid_disabled, burst_result, grid_size, raised>>

NextPair == \E a \in Inputs : pair_inquire_cell(a[1], a[2])

SpecPair == InitPair /\ [][NextPair]_vars

\* The colours a caller may hand to apply_constraints: the four signal
\* colours and the colour of a cell not yet inquired.
AnyColor == {"red", "orange", "yellow", "green", "neutral"}

\* A Game whose possible_positions is any set of coordinates.
InitConstraints ==
  /\ grid_size = GRID_SIZE
  /\ inquired = [c \in Coords |-> FALSE]
  /\ color = [c \in Coords |-> "neutral"]
  /\ probability = [num |-> [c \in Coords |-> 1], den |-> grid_size * grid_size]
  /\ possible_positions \in SUBSET Coords
  /\ ghost = <<0, 0>>
  /\ moves_left = MOVES_LEFT_DEFAULT
  /\ burst_mode = FALSE
  /\ grid_disabled = FALSE
  /\ burst_result = "none"
  /\ relocations = 0
  /\ raised = "none"
  /\ twin = None
  /\ call = [name |-> "__init__", arg |-> <<>>]
  /\ ret = "None"

\* Game.apply_constraints(row, col, color) called on its own.
apply_constraints_call(row, col, clr) ==
  /\ possible_positions' = apply_constraints(possible_positions, row, col, clr)
  /\ call' = [name |-> "apply_constraints", arg |-> <<row, col, clr>>]
  /\ ret' = "None"
  /\ UNCHANGED <<inquired, color, probability, ghost, moves_left, burst_mode,
                 grid_disabled, burst_result, relocations, grid_size, raised, twin>>

NextConstraints ==
  \E a \in Inputs, clr \in AnyColor : apply_constraints_call(a[1], a[2], clr)

SpecConstraints == InitConstraints /\ [][NextConstraints]_vars

\* The supports of the priors apply_region_based_probabilities is tried on:
\* the cells of the main diagonal, in every combination, and the whole grid.
PriorSupports ==
  ((SUBSET {<<k, k>> : k \in Range(grid_size)}) \ {{}}) \cup {Coords}

\* A Game whose possible_positions is any set of coordinates, whose ghost is
\* anywhere and whose probabilities are uniform on one of the supports.
InitRegion ==
  /\ grid_size = GRID_SIZE
  /\ inquired = [c \in Coords |-> FALSE]
  /\ color = [c \in Coords |-> "neutral"]
  /\ \E S \in PriorSupports :
       probability = [num |-> [c \in Coords |-> IF c \in S THEN 1 ELSE 0],
                      den |-> Cardinality(S)]
  /\ possible_positions \in SUBSET Coords
  /\ ghost \in Coords
  /\ moves_left = MOVES_LEFT_DEFAULT
  /\ burst_mode = FALSE
  /\ grid_disabled = FALSE
  /\ burst_result = "none"
  /\ relocations = 0
  /\ raised = "none"
  /\ twin = None
  /\ call = [name |-> "__init__", arg |-> <<>>]
  /\ ret = "None"

\* Game.apply_region_based_probabilities() called on its own, once.
apply_region_based_probabilities_call ==
  /\ call.name = "__init__"
  /\ probability' = apply_region_based_probabilities(probability, possible_positions, ghost)
  /\ call' = [name |-> "apply_region_based_probabilities", arg |-> <<>>]
  /\ ret' = "None"
  /\ UNCHANGED <<inquired, color, possible_positions, ghost, moves_left, burst_mode,
                 grid_disabled, burst_result, relocations, grid_size, raised, twin>>

NextRegion == apply_region_based_probabilities_call

SpecRegion == InitRegion /\ [][NextRegion]_vars

\* ------------------------------------------- game_logic_no_movement.py
\* The hunted game is followed while at most this many of its inquired cells
\* missed the ghost before the ghost's budget ran out.
MaxMisses == 1
\* The hunted game is followed for this many inquiries.
MaxHuntInquiries == 5

\* The 5x5 block around the ghost, clipped to the grid (game_logic_no_movement.py).
NoMovement_ghost_region(g) ==
  {c \in ((g[1] - 2) .. (g[1] + 2)) \X ((g[2] - 2) .. (g[2] + 2)) :
     get_cell(c[1], c[2]) # None}

\* apply_region_based_probabilities of game_logic_no_movement.py, the loop
\* that multiplies: as in game_logic.py, with the 5x5 region.
NoMovement_region_weights(P, pp, g) ==
  Reduce([num |-> [c \in Coords |->
                     IF c \notin pp THEN 0
                     ELSE IF c \in NoMovement_ghost_region(g) THEN P.num[c] * REGION_BOOST_TENTHS
                     ELSE P.num[c] * OUTSIDE_DECREASE_TENTHS],
          den |-> P.den * TENTHS])

\* Game.apply_region_based_probabilities(color) of game_logic_no_movement.py:
\* a red inquiry with one possible position forces that cell to 1.0.
NoMovement_apply_region_based_probabilities(P, pp, g, clr) ==
  IF clr = "red" /\ Cardinality(pp) = 1
  THEN [num |-> [c \in Coords |-> IF c \in pp THEN 1 ELSE 0], den |-> 1]
  ELSE normalize(NoMovement_region_weights(P, pp, g), pp)

\* Game.attempt_ghost_move of game_logic_no_movement.py: the outcomes
\* [ghost, moves_left, possible_positions, probability, ret].
NoMovement_attempt_ghost_move(row, col, g, ml, inq, clr, pp, P) ==
  LET stay == [ghost |-> g, moves_left |-> ml, possible_positions |-> pp,
               probability |-> P, ret |-> PyBool(FALSE)]
  IN IF ~can_move(ml) THEN {stay}
     ELSE
       LET neighbors == get_nearby_cells(row, col, 1)
           inquired_count == Cardinality({n \in neighbors : inq[n]})
           threshold == (THRESHOLD_NUM * Cardinality(neighbors)) \div TENTHS
       IN IF clr[<<row, col>>] = "red"
             \/ (inquired_count >= threshold /\ Cardinality(neighbors) > 0)
          THEN {IF m[1] # g
                THEN [ghost |-> m[1], moves_left |-> m[2],
                      possible_positions |-> Coords,
                      probability |->
                        NoMovement_apply_region_based_probabilities(P, Coords, m[1], "orange"),
                      ret |-> PyBool(TRUE)]
                ELSE [stay EXCEPT !.moves_left = m[2]]
                : m \in move(g, ml, inq)}
          ELSE {stay}

\* Game.inquire_cell(row, col) of game_logic_no_movement.py on the game state
\* G: the outcomes, each the state on return with the value returned.
NoMovement_inquire_cell_outcomes(row, col, G) ==
  IF rejected(G.inquired, row, col)
  THEN {[inquired |-> G.inquired, color |-> G.color,
         possible_positions |-> G.possible_positions, probability |-> G.probability,
         ghost |-> G.ghost, moves_left |-> G.moves_left, ret |-> PyBool(FALSE)]}
  ELSE LET cell == <<row, col>>
           inq1 == mark_inquired(G.inquired, cell)
           clr1 == [G.color EXCEPT ![cell] = inquiry_color(G.ghost, row, col)]
           pp1 == apply_constraints(G.possible_positions, row, col, clr1[cell])
           P1 == NoMovement_apply_region_based_probabilities(G.probability, pp1, G.ghost,
                                                             clr1[cell])
       IN {[inquired |-> inq1, color |-> clr1,
            possible_positions |-> o.possible_positions, probability |-> o.probability,
            ghost |-> o.ghost, moves_left |-> o.moves_left, ret |-> o.ret] :
             o \in NoMovement_attempt_ghost_move(row, col, G.ghost, G.moves_left, inq1, clr1,
                                                 pp1, P1)}

\* A Game of game_logic.py and, as the twin, a Game of
\* game_logic_no_movement.py (its Ghost starts with moves_left = 0) whose
\* ghost starts on the same cell.
InitHunt ==
  /\ GameInit(GRID_SIZE)
  /\ twin = [inquired |-> inquired, color |-> color,
             possible_positions |-> possible_positions, probability |-> probability,
             ghost |-> ghost, moves_left |-> 0, ret |-> ret]

\* The inquired cells of the first game that missed its ghost.
Misses == Cardinality({c \in Coords : inquired[c] /\ color[c] # "red"})

\* inquire_cell(row, col) called on both games, on a cell not yet inquired,
\* by a client that finds the first game's ghost at nearly every call until
\* that ghost's budget is used up, and inquires freely from then on.
hunt_inquire_cell(row, col) ==
  /\ ~rejected(inquired, row, col)
  /\ Cardinality({c \in Coords : inquired[c]}) < MaxHuntInquiries
  /\ (moves_left > 0 /\ <<row, col>> # ghost) => Misses < MaxMisses
  /\ inquire_cell_effect(row, col)
  /\ call' = [name |-> "inquire_cell", arg |-> <<row, col>>]
  /\ twin' \in NoMovement_inquire_cell_outcomes(row, col, twin)
  /\ UNCHANGED <<grid_disabled, burst_result, grid_size, raised>>

NextHunt == \E a \in Coords : hunt_inquire_cell(a[1], a[2])

SpecHunt == InitHunt /\ [][NextHunt]_vars

\* ------------------------------------------------- ghost.py and grid.py
\* The coordinates of a grid of the given size.
CoordsOf(n) == (0 .. n - 1) \X (0 .. n - 1)

Max(a, b) == IF a >= b THEN a ELSE b

Min(a, b) == IF a <= b THEN a ELSE b

\* Grid.get_cell (grid.py): the cell, or None when out of bounds.
Grid_get_cell(n, row, col) ==
  IF 0 <= row /\ row < n /\ 0 <= col /\ col < n THEN <<row, col>> ELSE None

\* Grid.get_nearby_cells (grid.py): the two ranges are clipped to the grid,
\* the cell itself is skipped.
Grid_get_nearby_cells(n, row, col, distance) ==
  {c \in (Max(0, row - distance) .. Min(n, row + distance + 1) - 1)
          \X (Max(0, col - distance) .. Min(n, col + distance + 1) - 1) :
     c # <<row, col>> /\ Grid_get_cell(n, c[1], c[2]) # None}

\* Ghost.move (ghost.py): the outcomes [ghost, moves_left, ret, raised] of one
\* call. random.choice is any member of the list, and raises IndexError on an
\* empty list before the position or the budget is written.
Ghost_move(n, g, ml, inq) ==
  IF ml <= 0
  THEN {[ghost |-> g, moves_left |-> ml, ret |-> g, raised |-> "none"]}
  ELSE LET ideal == {c \in CoordsOf(n) :
                       /\ c # g
                       /\ ~inq[Grid_get_cell(n, c[1], c[2])]
                       /\ \A nb \in Grid_get_nearby_cells(n, c[1], c[2], 1) :
                            ~inq[nb]}
           possible_positions_list ==
             IF ideal = {} THEN {c \in CoordsOf(n) : c # g} ELSE ideal
       IN IF possible_positions_list = {}
          THEN {[ghost |-> g, moves_left |-> ml, ret |-> None, raised |-> "IndexError"]}
          ELSE {[ghost |-> c, moves_left |-> ml - 1, ret |-> c, raised |-> "none"] :
                  c \in possible_positions_list}

\* A Ghost(N, moves_allowed) on a Grid(N) whose cells carry any pattern of
\* inquired flags; the Game variables do not take part.
InitGhost ==
  /\ grid_size \in 1 .. GRID_SIZE
  /\ inquired \in [CoordsOf(grid_size) -> BOOLEAN]
  /\ ghost \in CoordsOf(grid_size)
  /\ moves_left \in 0 .. MaxMovesLeft
  /\ color = [c \in CoordsOf(grid_size) |-> "neutral"]
  /\ probability = [num |-> [c \in CoordsOf(grid_size) |-> 1],
                    den |-> grid_size * grid_size]
  /\ possible_positions = CoordsOf(grid_size)
  /\ burst_mode = FALSE
  /\ grid_disabled = FALSE
  /\ burst_result = "none"
  /\ relocations = 0
  /\ call = [name |-> "__init__", arg |-> <<>>]
  /\ ret = None
  /\ raised = "none"
  /\ twin = None

\* ghost.move(grid)
Ghost_move_call ==
  /\ \E o \in Ghost_move(grid_size, ghost, moves_left, inquired) :
       /\ ghost' = o.ghost
       /\ moves_left' = o.moves_left
       /\ ret' = o.ret
       /\ raised' = o.raised
  /\ call' = [name |-> "Ghost.move", arg |-> <<>>]
  /\ UNCHANGED <<inquired, color, probability, possible_positions, burst_mode,
                 grid_disabled, burst_result, relocations, grid_size, twin>>

NextGhost == Ghost_move_call

SpecGhost == InitGhost /\ [][NextGhost]_vars

\* ------------------------------------------ Grid.get_nearby_cells, twice
\* The largest distance passed to get_nearby_cells.
MaxDistance == 2

\* The coordinates a Python double loop over range(rlo, rhi) and
\* range(clo, chi) visits, in its order (row by row); an empty range when
\* the upper end is not above the lower one.
RowMajor(rlo, rhi, clo, chi) ==
  LET H == Max(0, rhi - rlo)
      W == Max(0, chi - clo)
  IN [k \in 1 .. (H * W) |-> <<rlo + ((k - 1) \div W), clo + ((k - 1) % W)>>]

\* Mutant of Grid_get_nearby_cells_list: the ranges stop one short of the
\* last row and column.
Grid_get_nearby_cells_list_short(n, row, col, distance) ==
  LET visit(c) == c # <<row, col>> /\ Grid_get_cell(n, c[1], c[2]) # None
  IN SelectSeq(RowMajor(Max(0, row - distance), Min(n - 1, row + distance + 1),
                        Max(0, col - distance), Min(n - 1, col + distance + 1)),
               visit)

\* Grid.get_nearby_cells (grid.py), as the list it returns: both ranges are
\* clipped to the grid, the centre is skipped, get_cell filters what is left.
Grid_get_nearby_cells_list(n, row, col, distance) ==
  LET visit(c) == c # <<row, col>> /\ Grid_get_cell(n, c[1], c[2]) # None
  IN SelectSeq(RowMajor(Max(0, row - distance), Min(n, row + distance + 1),
                        Max(0, col - distance), Min(n, col + distance + 1)),
               visit)

\* Grid.get_nearby_cells (game_logic.py), as the list it returns: the whole
\* block is visited, the centre is skipped, cells get_cell does not find are
\* dropped.
get_nearby_cells_list(row, col, distance) ==
  LET visit(c) == c # <<row, col>> /\ get_cell(c[1], c[2]) # None
  IN SelectSeq(RowMajor(row - distance, row + distance + 1,
                        col - distance, col + distance + 1),
               visit)

\* The variables a call of a function outside Game leaves alone.
idleVars == <<possible_positions, moves_left, burst_mode, grid_disabled, burst_result,
              relocations, grid_size, raised, twin>>

\* Their values when no Game is running.
IdleInit ==
  /\ possible_positions = {}
  /\ moves_left = 0
  /\ burst_mode = FALSE
  /\ grid_disabled = FALSE
  /\ burst_result = "none"
  /\ relocations = 0
  /\ raised = "none"
  /\ twin = None
  /\ call = [name |-> "__init__", arg |-> <<>>]
  /\ ret = None

\* A fresh Grid(size) of either module.
InitNearby ==
  /\ grid_size \in 1 .. GRID_SIZE
  /\ inquired = [c \in Coords |-> FALSE]
  /\ color = [c \in Coords |-> "neutral"]
  /\ probability = [num |-> [c \in Coords |-> 1], den |-> grid_size * grid_size]
  /\ ghost = <<0, 0>>
  /\ IdleInit

\* get_nearby_cells(row, col, distance) called on the Grid of grid.py and on
\* the Grid of game_logic.py, for the same size.
get_nearby_cells_call(row, col, distance) ==
  /\ call' = [name |-> "get_nearby_cells", arg |-> <<row, col, distance>>]
  /\ ret' = [grid_py |-> Grid_get_nearby_cells_list(grid_size, row, col, distance),
             game_logic_py |-> get_nearby_cells_list(row, col, distance)]
  /\ UNCHANGED <<inquired, color, probability, ghost, idleVars>>

NextNearby ==
  \E row \in (0 - MaxDistance - 1) .. (grid_size + MaxDistance),
     col \in (0 - MaxDistance - 1) .. (grid_size + MaxDistance),
     distance \in 0 .. MaxDistance :
    get_nearby_cells_call(row, col, distance)

SpecNearby == InitNearby /\ [][NextNearby]_vars

\* ------------------------------------------------------- probability.py
\* Mutant of flood_fill_loop: a popped coordinate is processed even when it
\* was visited before.
RECURSIVE flood_fill_loop_no_check(_, _, _, _, _, _)
flood_fill_loop_no_check(n, inq, stack, visited, region, iterations) ==
  IF stack = <<>> THEN [region |-> region, iterations |-> iterations]
  ELSE LET rc == stack[Len(stack)]
           rest == SubSeq(stack, 1, Len(stack) - 1)
           visited1 == visited \cup {rc}
           cell == Grid_get_cell(n, rc[1], rc[2])
           fresh(nb) == ~inq[nb] /\ nb \notin visited1
       IN IF cell # None /\ ~inq[cell]
          THEN flood_fill_loop_no_check(n, inq,
                 rest \o SelectSeq(Grid_get_nearby_cells_list(n, rc[1], rc[2], 1), fresh),
                 visited1, Append(region, cell), iterations + 1)
          ELSE flood_fill_loop_no_check(n, inq, rest, visited1, region, iterations + 1)

\* flood_fill_region's while loop, from the given stack, visited set and
\* region list: the region when the stack is empty, with the number of
\* iterations made.
RECURSIVE flood_fill_loop(_, _, _, _, _, _)
flood_fill_loop(n, inq, stack, visited, region, iterations) ==
  IF stack = <<>> THEN [region |-> region, iterations |-> iterations]
  ELSE LET rc == stack[Len(stack)]
           rest == SubSeq(stack, 1, Len(stack) - 1)
       IN IF rc \in visited
          THEN flood_fill_loop(n, inq, rest, visited, region, iterations + 1)
          ELSE LET visited1 == visited \cup {rc}
                   cell == Grid_get_cell(n, rc[1], rc[2])
                   fresh(nb) == ~inq[nb] /\ nb \notin visited1
               IN IF cell # None /\ ~inq[cell]
                  THEN flood_fill_loop(n, inq,
                         rest \o SelectSeq(Grid_get_nearby_cells_list(n, rc[1], rc[2], 1), fresh),
                         visited1, Append(region, cell), iterations + 1)
                  ELSE flood_fill_loop(n, inq, rest, visited1, region, iterations + 1)

\* flood_fill_region on a Grid(n) with the inquired flags inq: the list
\* returned and the iterations of its loop.
flood_fill_run(n, inq, start_row, start_col) ==
  LET start_cell == Grid_get_cell(n, start_row, start_col)
  IN IF start_cell = None \/ inq[start_cell]
     THEN [region |-> <<>>, iterations |-> 0]
     ELSE flood_fill_loop(n, inq, <<<<start_row, start_col>>>>, {}, <<>>, 0)

\* flood_fill_region: the list of cells returned.
flood_fill_region(n, inq, start_row, start_col) ==
  flood_fill_run(n, inq, start_row, start_col).region

\* A Grid(size) with any pattern of inquired cells.
InitFlood ==
  /\ grid_size \in 1 .. GRID_SIZE
  /\ inquired \in [Coords -> BOOLEAN]
  /\ color = [c \in Coords |-> IF inquired[c] THEN "green" ELSE "neutral"]
  /\ probability = [num |-> [c \in Coords |-> 1], den |-> grid_size * grid_size]
  /\ ghost = <<0, 0>>
  /\ IdleInit

\* flood_fill_region(grid, start_row, start_col)
flood_fill_region_call(start_row, start_col) ==
  /\ call' = [name |-> "flood_fill_region", arg |-> <<start_row, start_col>>]
  /\ ret' = flood_fill_region(grid_size, inquired, start_row, start_col)
  /\ UNCHANGED <<inquired, color, probability, ghost, idleVars>>

NextFlood ==
  \E start_row \in -1 .. grid_size, start_col \in -1 .. grid_size :
    flood_fill_region_call(start_row, start_col)

SpecFlood == InitFlood /\ [][NextFlood]_vars

\* Mutant of update_probabilities: every non-inquired cell counts as the
\* ghost's region.
update_probabilities_no_fill(n, inq, clr, P, g) ==
  LET ghost_cell == Grid_get_cell(n, g[1], g[2])
      non_inquired == {c \in CoordsOf(n) : ~inq[c]}
  IN IF inq[ghost_cell] /\ clr[ghost_cell] = "red"
     THEN [num |-> [c \in CoordsOf(n) |-> IF c = ghost_cell THEN 1 ELSE 0], den |-> 1]
     ELSE IF non_inquired # {}
          THEN [num |-> [c \in CoordsOf(n) |-> IF inq[c] THEN 0 ELSE 1],
                den |-> Cardinality(non_inquired)]
          ELSE P

\* update_probabilities(grid, ghost) on a Grid(n) with flags inq, colours clr
\* and probabilities P, the ghost at g: the probabilities on return.
update_probabilities(n, inq, clr, P, g) ==
  LET ghost_cell == Grid_get_cell(n, g[1], g[2])
  IN IF inq[ghost_cell] /\ clr[ghost_cell] = "red"
     THEN [num |-> [c \in CoordsOf(n) |-> IF c = ghost_cell THEN 1 ELSE 0], den |-> 1]
     ELSE LET region == flood_fill_region(n, inq, g[1], g[2])
          IN IF region = <<>>
             THEN LET non_inquired == {c \in CoordsOf(n) : ~inq[c]}
                  IN IF non_inquired # {}
                     THEN [num |-> [c \in CoordsOf(n) |-> IF inq[c] THEN 0 ELSE 1],
                           den |-> Cardinality(non_inquired)]
                     ELSE P
             ELSE [num |-> [c \in CoordsOf(n) |-> IF c \in Elements(region) THEN 1 ELSE 0],
                   den |-> Len(region)]

\* A Grid(size) with any pattern of inquired cells, the ghost anywhere, its
\* cell red or not when inquired, and the probabilities of a fresh Grid (all
\* equal) or of the module's DummyGrid (all 0.0).
InitUpdate ==
  /\ grid_size \in 1 .. GRID_SIZE
  /\ inquired \in [Coords -> BOOLEAN]
  /\ ghost \in Coords
  /\ \E found \in BOOLEAN :
       color = [c \in Coords |-> IF ~inquired[c] THEN "neutral"
                                 ELSE IF c = ghost /\ found THEN "red" ELSE "green"]
  /\ probability \in {[num |-> [c \in Coords |-> 1], den |-> grid_size * grid_size],
                       [num |-> [c \in Coords |-> 0], den |-> 1]}
  /\ IdleInit

\* update_probabilities(grid, ghost)
update_probabilities_call ==
  /\ call' = [name |-> "update_probabilities", arg |-> <<>>]
  /\ probability' = update_probabilities(grid_size, inquired, color, probability, ghost)
  /\ ret' = None
  /\ UNCHANGED <<inquired, color, ghost, idleVars>>

NextUpdate == update_probabilities_call

SpecUpdate == InitUpdate /\ [][NextUpdate]_vars

\* ----------------------------------------------------- bayes_updates.py
\* The largest numerator of a cell of the prior.
MaxPriorNum == 2

\* The colours an observation can have.
Colors == {"red", "orange", "yellow", "green"}

\* observation_likelihood(distance, color), in hundredths.
observation_likelihood(distance, clr) ==
  IF distance = 0
  THEN IF clr = "red" THEN 80 ELSE IF clr = "orange" THEN 10
       ELSE IF clr = "yellow" THEN 5 ELSE 5
  ELSE IF distance = 1
  THEN IF clr = "red" THEN 10 ELSE IF clr = "orange" THEN 70
       ELSE IF clr = "yellow" THEN 10 ELSE 10
  ELSE IF distance = 2
  THEN IF clr = "red" THEN 5 ELSE IF clr = "orange" THEN 10
       ELSE IF clr = "yellow" THEN 70 ELSE 15
  ELSE IF clr = "red" THEN 5 ELSE IF clr = "orange" THEN 5
       ELSE IF clr = "yellow" THEN 10 ELSE 80

\* The list unnormalized of apply_bayes_update, per cell, in units of
\* 1 / (P.den * 100).
unnormalized(P, clicked_row, clicked_col, observed_color) ==
  [c \in Coords |->
     LET dist == Max(Abs(c[1] - clicked_row), Abs(c[2] - clicked_col))
     IN P.num[c] * observation_likelihood(dist, observed_color)]

\* Mutant of apply_bayes_update: the posterior is not divided by the total.
apply_bayes_update_no_normalize(P, clicked_row, clicked_col, observed_color) ==
  LET u == unnormalized(P, clicked_row, clicked_col, observed_color)
  IN IF BelowEps(SumOver(u, Coords), P.den * 100)
     THEN [num |-> [c \in Coords |-> 1], den |-> grid_size * grid_size]
     ELSE Reduce([num |-> u, den |-> P.den * 100])

\* Mutant of apply_bayes_update: a vanishing total leaves the prior in place.
apply_bayes_update_no_reset(P, clicked_row, clicked_col, observed_color) ==
  LET u == unnormalized(P, clicked_row, clicked_col, observed_color)
  IN IF BelowEps(SumOver(u, Coords), P.den * 100)
     THEN P
     ELSE Reduce([num |-> u, den |-> SumOver(u, Coords)])

\* apply_bayes_update: the probabilities of the cells on return.
apply_bayes_update(P, clicked_row, clicked_col, observed_color) ==
  LET u == unnormalized(P, clicked_row, clicked_col, observed_color)
  IN IF BelowEps(SumOver(u, Coords), P.den * 100)
     THEN [num |-> [c \in Coords |-> 1], den |-> grid_size * grid_size]
     ELSE Reduce([num |-> u, den |-> SumOver(u, Coords)])

\* The cells that carry the prior's mass in the runs: the main diagonal.
Diagonal == {c \in Coords : c[1] = c[2]}

\* A Grid of the wide size whose probabilities are any prior on the
\* diagonal, the all-zero one included.
InitBayes ==
  /\ grid_size = WIDE_GRID_SIZE
  /\ inquired = [c \in Coords |-> FALSE]
  /\ color = [c \in Coords |-> "neutral"]
  /\ ghost = <<0, 0>>
  /\ \E w \in [Diagonal -> 0 .. MaxPriorNum] :
       LET total == SumOver(w, Diagonal)
       IN probability = Reduce([num |-> [c \in Coords |-> IF c \in Diagonal THEN w[c] ELSE 0],
                                den |-> IF total = 0 THEN 1 ELSE total])
  /\ IdleInit

\* apply_bayes_update(grid, clicked_row, clicked_col, observed_color), once
\* on the prior.
apply_bayes_update_call(clicked_row, clicked_col, observed_color) ==
  /\ call.name = "__init__"
  /\ call' = [name |-> "apply_bayes_update",
              arg |-> <<clicked_row, clicked_col, observed_color>>]
  /\ probability' = apply_bayes_update(probability, clicked_row, clicked_col, observed_color)
  /\ ret' = None
  /\ UNCHANGED <<inquired, color, ghost, idleVars>>

NextBayes ==
  \E a \in Inputs, observed_color \in Colors :
    apply_bayes_update_call(a[1], a[2], observed_color)

SpecBayes == InitBayes /\ [][NextBayes]_vars

\* ---------------------------------------------------------------- claims
\* The cell has probability 1 and every other cell probability 0.
IsPoint(P, cell) ==
  /\ P.den > 0
  /\ P.num[cell] = P.den
  /\ \A c \in Coords \ {cell} : P.num[c] = 0

\* C1: between public calls (after construction and after every completed
\* inquire_cell, relocation or not) the ghost's current position is a member
\* of possible_positions.
C1_GhostInPossible == ghost \in possible_positions

\* C1 witness: an inquiry has relocated the ghost and narrowed the set.
C1_Witness ==
  /\ call.name = "inquire_cell" /\ ret = "True"
  /\ possible_positions # Coords
  /\ ghost \in possible_positions

\* C2: after construction and after every completed inquire_cell the
\* probabilities of all cells sum to exactly 1.
C2_SumIsOne ==
  /\ probability.den > 0
  /\ SumOver(probability.num, Coords) = probability.den

\* C2 witness: a red inquiry relocated the ghost (the total collapsed to zero
\* and was rebuilt) and the sum is 1.
C2_Witness ==
  /\ call.name = "inquire_cell" /\ ret = "True"
  /\ color[call.arg] = "red"
  /\ SumOver(probability.num, Coords) = probability.den

\* C3 as claimed: whenever inquire_cell(r,c) is called on the ghost's current
\* cell, on return possible_positions is {(r,c)}, (r,c) has probability 1 and
\* every other cell probability 0.
C3_Orig ==
  [][(call'.name = "inquire_cell" /\ call'.arg = ghost)
       => (possible_positions' = {ghost} /\ IsPoint(probability', ghost))]_vars

\* C3 amended: when inquire_cell(r,c) is called on the ghost's current cell
\* and the ghost does not relocate in that call, on return possible_positions
\* is {(r,c)}, (r,c) has probability 1 and every other cell 0; when the ghost
\* relocates, possible_positions is every coordinate except (r,c), and (r,c)
\* is red with probability 0.
C3_RedInquiry ==
  [][(call'.name = "inquire_cell" /\ call'.arg = ghost)
       => IF ghost' = ghost
          THEN possible_positions' = {ghost} /\ IsPoint(probability', ghost)
          ELSE /\ possible_positions' = Coords \ {ghost}
               /\ probability'.num[ghost] = 0
               /\ color'[ghost] = "red"]_vars

\* C3 witness: the ghost's cell was inquired with no move left; the ghost is
\* pinned there with probability 1.
C3_Witness ==
  /\ call.name = "inquire_cell" /\ call.arg = ghost
  /\ color[ghost] = "red" /\ moves_left = 0
  /\ possible_positions = {ghost} /\ IsPoint(probability, ghost)

\* C4 as claimed: whenever an inquire_cell call changes the ghost's
\* coordinate, possible_positions on return is the full grid.
C4_Orig ==
  [][(call'.name = "inquire_cell" /\ ghost' # ghost)
       => possible_positions' = Coords]_vars

\* C4 amended: whenever an inquire_cell call changes the ghost's coordinate,
\* possible_positions on return is the full grid when the inquired cell is not
\* red, and the full grid without the inquired cell when it is red.
C4_ResetOnRelocation ==
  [][(call'.name = "inquire_cell" /\ ghost' # ghost)
       => possible_positions' = IF color'[call'.arg] = "red"
                                THEN Coords \ {call'.arg} ELSE Coords]_vars

\* C4 witness: an inquiry that is not red relocated the ghost (neighbour
\* threshold) and the set is the full grid.
C4_Witness ==
  /\ call.name = "inquire_cell" /\ ret = "True"
  /\ color[call.arg] # "red"
  /\ possible_positions = Coords

\* C5 as claimed: inquire_cell called while burst_mode is true returns False
\* and changes no game state.
C5_Orig ==
  [][(burst_mode /\ call'.name = "inquire_cell")
       => (ret' = "False" /\ UNCHANGED gameVars)]_vars

\* C6 as claimed: after the first burst_mode_attempt of a game (made in burst
\* mode, where the attempt is valid) no later
\* burst_mode_attempt returns a different result and no later call changes
\* the game state.
C6_Orig ==
  [][(burst_result # "none" /\ call'.name # "restart_game")
       => /\ UNCHANGED gameVars
          /\ call'.name = "burst_mode_attempt" => ret' = PyBool(burst_result = "won")]_vars

\* C7 as claimed: once burst_mode is true for a game it never becomes false
\* again, under backend calls and GameWindow actions alike.
C7_Orig ==
  [][(burst_mode /\ call'.name # "restart_game") => burst_mode']_vars

\* C7 amended: once burst_mode is true for a game, no backend call and no cell
\* click makes it false again; only a press of the GameWindow's Burst Mode
\* button does.
C7_OnlyButtonLeavesBurst ==
  [][(burst_mode /\ ~burst_mode' /\ call'.name # "restart_game")
       => call'.name = "activate_burst_mode"]_vars

\* C7 witness: burst mode is on and has survived a backend call.
C7_Witness ==
  /\ burst_mode
  /\ call.name = "burst_mode_attempt"
  /\ burst_result # "none"

\* C8 as claimed: burst_mode_attempt called while burst_mode is false returns
\* False and has no effect, also on the ghost's own cell.
C8_Orig ==
  [][(~burst_mode /\ call'.name = "burst_mode_attempt")
       => (ret' = "False" /\ UNCHANGED gameVars)]_vars

\* C9: the snapshot's ghost_position is None exactly when burst_mode is
\* false, and otherwise it is the ghost's current position.
C9_StatusHidesGhost ==
  /\ (game_status.ghost_position = None) <=> ~burst_mode
  /\ game_status.ghost_position # None => game_status.ghost_position = ghost

\* C9 witness: burst mode after an inquiry, the snapshot shows the ghost.
C9_Witness ==
  /\ burst_mode
  /\ \E c \in Coords : inquired[c]
  /\ game_status.ghost_position = ghost

\* C10: inquire_cell returns True exactly when the ghost's position after the
\* call differs from the one before, which is exactly when moves_left was
\* decremented (by one) by the call.
C10_ReturnsMoved ==
  [][call'.name = "inquire_cell"
       => /\ (ret' = "True") <=> (ghost' # ghost)
          /\ (ret' = "True") <=> (moves_left' = moves_left - 1)
          /\ (ret' # "True") => (moves_left' = moves_left)]_vars

\* C10 witness: a second relocation has been reported.
C10_Witness ==
  /\ call.name = "inquire_cell" /\ ret = "True"
  /\ moves_left = MOVES_LEFT_DEFAULT - 2

\* Chebyshev distance between two coordinates.
Chebyshev(a, b) ==
  IF Abs(a[1] - b[1]) >= Abs(a[2] - b[2]) THEN Abs(a[1] - b[1]) ELSE Abs(a[2] - b[2])

\* The in-bounds 3x3 block around a coordinate, the coordinate included.
Block(cell) == {c \in Coords : Chebyshev(c, cell) <= 1}

\* C11: with initial budget 3, after three relocations moves_left is 0, and
\* from then on every inquire_cell call, a triggering one included, leaves the
\* ghost's position unchanged and returns False.
C11_BudgetExhausted ==
  [][/\ relocations' = 3 => moves_left' = 0
     /\ (moves_left = 0 /\ call'.name = "inquire_cell")
          => (ghost' = ghost /\ ret' = "False")]_vars

\* C11 witness: after three relocations the ghost's own cell was inquired (a
\* red trigger); the ghost stayed and the call returned False.
C11_Witness ==
  /\ relocations = 3 /\ moves_left = 0
  /\ call.name = "inquire_cell" /\ ret = "False"
  /\ ghost = call.arg /\ color[call.arg] = "red"

\* C12: an inquire_cell call with out-of-range coordinates (negative ones
\* included) or on an already inquired cell returns False, raises nothing and
\* leaves cells, probabilities, possible_positions, ghost and moves_left
\* unchanged.
C12_RejectedIsNoOp ==
  [][(call'.name = "inquire_cell"
        /\ (call'.arg \notin Coords \/ inquired[call'.arg]))
       => (ret' = "False" /\ raised' = "none" /\ UNCHANGED gameVars)]_vars

\* C12 witness: the last call inquired a red cell the ghost has left; the
\* first inquiry of that cell was the one that coloured it (the ghost was
\* there), so this call is a repeated one, and it returned False.
C12_Witness ==
  /\ call.name = "inquire_cell" /\ ret = "False"
  /\ call.arg \in Coords /\ color[call.arg] = "red" /\ ghost # call.arg
  /\ moves_left > 0

\* C13 as claimed: inquire_cell(r,c) on a not yet inquired cell at Chebyshev
\* distance 2 or more from the ghost colours the cell green and, on return,
\* neither (r,c) nor any of its in-bounds neighbours is in possible_positions.
C13_Orig ==
  [][(call'.name = "inquire_cell" /\ call'.arg \in Coords
        /\ ~inquired[call'.arg] /\ Chebyshev(call'.arg, ghost) >= 2)
       => (color'[call'.arg] = "green"
           /\ possible_positions' \cap Block(call'.arg) = {})]_vars

\* C13 amended: inquire_cell(r,c) on a not yet inquired cell at Chebyshev
\* distance 2 or more from the ghost colours the cell green; when the call
\* does not relocate the ghost, on return neither (r,c) nor any of its
\* in-bounds neighbours is in possible_positions; when the call relocates the
\* ghost (neighbour threshold), possible_positions on return is the full grid.
C13_GreenExclusion ==
  [][(call'.name = "inquire_cell" /\ call'.arg \in Coords
        /\ ~inquired[call'.arg] /\ Chebyshev(call'.arg, ghost) >= 2)
       => (/\ color'[call'.arg] = "green"
           /\ IF ghost' = ghost
              THEN possible_positions' \cap Block(call'.arg) = {}
              ELSE possible_positions' = Coords)]_vars

\* C13 witness: a green inquiry that did not relocate the ghost; the block of
\* the inquired cell is excluded and the rest of the set is not empty.
C13_Witness ==
  /\ call.name = "inquire_cell" /\ ret = "False"
  /\ call.arg \in Coords /\ color[call.arg] = "green"
  /\ possible_positions # {}
  /\ possible_positions \cap Block(call.arg) = {}

\* C14: burst_mode_attempt(row, col) returns True if and only if (row, col)
\* is the ghost's current position, and changes no game state.
C14_BurstAttemptPure ==
  [][call'.name = "burst_mode_attempt"
       => (ret' = PyBool(call'.arg = ghost) /\ UNCHANGED gameVars)]_vars

\* C14 witness: after a relocation, an attempt on the ghost's cell returned
\* True.
C14_Witness ==
  /\ call.name = "burst_mode_attempt" /\ ret = "True"
  /\ call.arg = ghost /\ moves_left < MOVES_LEFT_DEFAULT

\* attempt_ghost_move's counts for the cell (row, col): the inquired
\* neighbours and all the neighbours.
InquiredNeighbours(inq, cell) ==
  Cardinality({n \in get_nearby_cells(cell[1], cell[2], 1) : inq[n]})

AllNeighbours(cell) == Cardinality(get_nearby_cells(cell[1], cell[2], 1))

\* The number of inquired cells.
InquiredCount(inq) == Cardinality({c \in Coords : inq[c]})

\* C17 as claimed: an inquiry whose cell is not coloured red relocates the
\* ghost only if (inquired neighbours) / (all in-bounds neighbours) is at
\* least 0.8, for interior, edge and corner cells alike.
C17_Orig ==
  [][(call'.name = "inquire_cell" /\ call'.arg \in Coords
        /\ color'[call'.arg] # "red" /\ ghost' # ghost)
       => TENTHS * InquiredNeighbours(inquired', call'.arg)
            >= THRESHOLD_NUM * AllNeighbours(call'.arg)]_vars

\* C18: once a cell is inquired its flag stays true and its colour never
\* changes under later inquire_cell, relocation, switch_to_burst_mode and
\* burst_mode_attempt calls; a cell that is not inquired has colour neutral.
C18_WriteOnce ==
  [][call'.name # "restart_game"
       => /\ \A c \in Coords :
               inquired[c] => (inquired'[c] /\ color'[c] = color[c])
          /\ \A c \in Coords :
               /\ ~inquired[c] => color[c] = "neutral"
               /\ ~inquired'[c] => color'[c] = "neutral"]_vars

\* C18 witness: a relocation has just happened while another cell, inquired
\* earlier, still carries its colour, and a cell not inquired is neutral.
C18_Witness ==
  /\ call.name = "inquire_cell" /\ ret = "True"
  /\ \E c \in Coords \ {call.arg} : inquired[c] /\ color[c] # "neutral"
  /\ \E c \in Coords : ~inquired[c] /\ color[c] = "neutral"

\* C19: every inquire_cell call that is not rejected raises the number of
\* inquired cells by exactly one, and no call lowers it; the number never
\* exceeds N*N, so at most N*N calls have an effect.
C19_InquiredGrows ==
  [][/\ InquiredCount(inquired') >= InquiredCount(inquired)
     /\ InquiredCount(inquired') <= GRID_SIZE * GRID_SIZE
     /\ call'.name = "inquire_cell"
          => InquiredCount(inquired') =
               IF call'.arg \notin Coords \/ inquired[call'.arg]
               THEN InquiredCount(inquired)
               ELSE InquiredCount(inquired) + 1]_vars

\* C19 witness: three inquiries have had an effect and the last call left the
\* ghost where it was.
C19_Witness ==
  /\ call.name = "inquire_cell" /\ ret = "False"
  /\ call.arg \in Coords /\ inquired[call.arg]
  /\ InquiredCount(inquired) = 3

\* C20: when inquire_cell on the ghost's cell makes the ghost move away, on
\* return the inquired cell is still red, has probability 0 and is not in
\* possible_positions.
C20_RedCellAfterMove ==
  [][(call'.name = "inquire_cell" /\ call'.arg = ghost /\ ghost' # ghost)
       => /\ color'[call'.arg] = "red"
          /\ probability'.num[call'.arg] = 0
          /\ call'.arg \notin possible_positions']_vars

\* C20 witness: the ghost has left the red cell that was just inquired.
C20_Witness ==
  /\ call.name = "inquire_cell" /\ ret = "True"
  /\ ghost # call.arg /\ color[call.arg] = "red"
  /\ probability.num[call.arg] = 0 /\ call.arg \notin possible_positions

\* The coordinates other than the ghost's that are not inquired and have no
\* inquired neighbour.
IdealCells ==
  {c \in CoordsOf(grid_size) \ {ghost} :
     /\ ~inquired[c]
     /\ \A nb \in CoordsOf(grid_size) : Chebyshev(nb, c) = 1 => ~inquired[nb]}

\* C15 as claimed: Ghost.move (ghost.py) with moves_left > 0 moves the ghost
\* to a coordinate other than the current one that is not inquired and has no
\* inquired neighbour if there is one, and otherwise to some coordinate other
\* than the current one; in both cases the position changes and moves_left
\* decreases by exactly 1.
C15_Orig ==
  [][(call'.name = "Ghost.move" /\ moves_left > 0)
       => /\ ghost' \in CoordsOf(grid_size) \ {ghost}
          /\ IdealCells # {} => ghost' \in IdealCells
          /\ moves_left' = moves_left - 1]_vars

\* C16 as claimed: Ghost.move (ghost.py) completes without raising for every
\* grid size N >= 1, every pattern of inquired cells and every moves_left >= 0;
\* with moves_left = 0 it leaves position and moves_left unchanged and returns
\* the current position.
C16_Orig ==
  [][call'.name = "Ghost.move"
       => /\ raised' = "none"
          /\ moves_left = 0
               => (ghost' = ghost /\ moves_left' = 0 /\ ret' = ghost)]_vars

\* C21: from the uniform prior, for every ghost position and every cell at
\* Chebyshev distance greater than 2 from the ghost, the first inquire_cell on
\* that cell colours it green and leaves the cell's probability strictly
\* lower than before the call.
C21_FarCellDrops ==
  [][(call'.name = "inquire_cell" /\ call'.arg \in Coords
        /\ (\A c \in Coords : ~inquired[c])
        /\ Chebyshev(call'.arg, ghost) > 2)
       => /\ color'[call'.arg] = "green"
          /\ probability'.num[call'.arg] * probability.den
               < probability.num[call'.arg] * probability'.den]_vars

\* C21 witness: the one inquired cell is green, more than two steps from the
\* ghost, and its probability is below the uniform prior.
C21_Witness ==
  /\ call.name = "inquire_cell" /\ call.arg \in Coords
  /\ InquiredCount(inquired) = 1 /\ color[call.arg] = "green"
  /\ Chebyshev(call.arg, ghost) > 2
  /\ probability.num[call.arg] * grid_size * grid_size < probability.den

\* C27: whenever inquire_cell is called on the ghost's current cell while
\* moves_left > 0 and at least one other cell is not inquired, the ghost
\* relocates in that call: the call returns True and the ghost is no longer
\* on the inquired cell.
C27_RedRelocates ==
  [][(call'.name = "inquire_cell" /\ call'.arg = ghost /\ moves_left > 0
        /\ \E c \in Coords \ {ghost} : ~inquired[c])
       => (ret' = "True" /\ ghost' # call'.arg)]_vars

\* C27 witness: the ghost has left its cell on a red inquiry for the second
\* time, with one move left.
C27_Witness ==
  /\ call.name = "inquire_cell" /\ ret = "True"
  /\ color[call.arg] = "red" /\ ghost # call.arg
  /\ relocations = 2 /\ moves_left = 1

\* C28 as claimed: after every completed inquire_cell, a relocating one
\* included, the ghost's current cell has probability strictly greater than 0.
C28_Orig == probability.num[ghost] > 0

\* C29 as claimed: two games that differ in the ghost's position only and
\* have been given the same inquire_cell calls, with the same colours and the
\* same return values, have the same game_status() while burst_mode is false.
C29_Orig ==
  ~burst_mode => game_status = game_status_of(twin, burst_mode)

\* C30: a move of the Ghost of game_logic.py never lands on an
\* inquired cell, so the ghost's current cell is inquired only if it is red;
\* and when every cell other than the current one is inquired, move leaves
\* position and moves_left unchanged.
C30_NeverOnInquired ==
  [][/\ inquired'[ghost'] => color'[ghost'] = "red"
     /\ (call'.name = "inquire_cell" /\ ghost' # ghost) => ~inquired'[ghost']
     /\ (call'.name = "inquire_cell" /\ \A c \in Coords \ {ghost} : inquired'[c])
          => (ghost' = ghost /\ moves_left' = moves_left)]_vars

\* C30 witness: every other cell was inquired when the ghost's own cell was;
\* the ghost stayed on it, red, with its budget untouched.
C30_Witness ==
  /\ call.name = "inquire_cell" /\ call.arg = ghost
  /\ \A c \in Coords : inquired[c]
  /\ color[ghost] = "red" /\ moves_left > 0

\* The in-bounds cells of the (2*distance+1)^2 block around (row, col), the
\* cell itself left out, in row-major order.
BlockRowMajor(row, col, distance) ==
  LET member(c) == c # <<row, col>> /\ Abs(c[1] - row) <= distance
                                    /\ Abs(c[2] - col) <= distance
  IN SelectSeq(RowMajor(0, grid_size, 0, grid_size), member)

\* C26: get_nearby_cells of grid.py (range clipping) and of game_logic.py
\* (None filtering) return the same sequence of coordinates for every row and
\* col, in or out of range, and every distance >= 0: the in-bounds cells of
\* the block around (row, col) without (row, col), in row-major order.
C26_NearbyAgree ==
  call.name = "get_nearby_cells"
    => /\ ret.grid_py = ret.game_logic_py
       /\ ret.grid_py = BlockRowMajor(call.arg[1], call.arg[2], call.arg[3])
       /\ Elements(ret.grid_py)
            = Grid_get_nearby_cells(grid_size, call.arg[1], call.arg[2], call.arg[3])
       /\ Elements(ret.game_logic_py)
            = get_nearby_cells(call.arg[1], call.arg[2], call.arg[3])

\* C26 witness: a call around a cell outside the grid, at distance 2, found
\* cells, the last cell of the grid among them.
C26_Witness ==
  /\ call.name = "get_nearby_cells"
  /\ call.arg[1] = grid_size /\ call.arg[3] = 2
  /\ Len(ret.grid_py) > 1
  /\ <<grid_size - 1, grid_size - 1>> \in Elements(ret.game_logic_py)

\* The non-inquired cells that 8-connected steps over non-inquired cells
\* reach from the cells of S.
RECURSIVE ReachableFrom(_)
ReachableFrom(S) ==
  LET T == S \cup {c \in Coords : ~inquired[c] /\ \E d \in S : Chebyshev(c, d) = 1}
  IN IF T = S THEN S ELSE ReachableFrom(T)

\* C25: for every grid, every pattern of inquired cells and every start
\* coordinate the loop of flood_fill_region terminates, and the result holds,
\* each exactly once, precisely the non-inquired cells reachable from the
\* start through 8-connected steps over non-inquired cells; it is empty when
\* the start is out of range or inquired.
C25_FloodFill ==
  call.name = "flood_fill_region"
    => LET start == call.arg
           valid == start \in Coords /\ ~inquired[start]
           run == flood_fill_run(grid_size, inquired, start[1], start[2])
       IN /\ ret = run.region
          /\ run.iterations <= 1 + 8 * grid_size * grid_size
          /\ Len(ret) = Cardinality(Elements(ret))
          /\ Elements(ret) = IF valid THEN ReachableFrom({start}) ELSE {}
          /\ ~valid => ret = <<>>

\* C25 witness: the region found has several cells and leaves out a
\* non-inquired cell that inquired cells cut off from the start.
C25_Witness ==
  /\ call.name = "flood_fill_region"
  /\ Len(ret) > 2
  /\ \E c \in Coords : ~inquired[c] /\ c \notin Elements(ret)

\* The probabilities P are 1/|R| on the cells of R and 0 elsewhere.
UniformOn(P, R) ==
  /\ P.den > 0
  /\ \A c \in Coords : IF c \in R THEN P.num[c] * Cardinality(R) = P.den
                                   ELSE P.num[c] = 0

Likelihood(c, a) == observation_likelihood(Chebyshev(c, <<a[1], a[2]>>), a[3])

\* The weighted sum of prior times likelihood, in units of 1 / (P.den * 100).
WeightedSum(P, a) == SumOver([c \in Coords |-> P.num[c] * Likelihood(c, a)], Coords)

\* C22: when the weighted sum total of prior(cell) * L(...) over the cells
\* is at least 1e-12, each cell's probability after apply_bayes_update is
\* prior(cell) * L(...) / total, so the probabilities sum to 1 and a cell with
\* prior 0 keeps probability 0.
C22_BayesPosterior ==
  [][(call'.name = "apply_bayes_update"
        /\ ~BelowEps(WeightedSum(probability, call'.arg), probability.den * 100))
       => /\ probability'.den > 0
          /\ \A c \in Coords :
               /\ probability'.num[c] * WeightedSum(probability, call'.arg)
                    = probability.num[c] * Likelihood(c, call'.arg) * probability'.den
               /\ probability.num[c] = 0 => probability'.num[c] = 0
          /\ SumOver(probability'.num, Coords) = probability'.den]_vars

\* C22 witness: an update has left mass on a cell more than two steps from
\* the clicked one and on another cell, and none off the prior's support.
C22_Witness ==
  /\ call.name = "apply_bayes_update"
  /\ \E c \in Coords : probability.num[c] > 0 /\ Chebyshev(c, <<call.arg[1], call.arg[2]>>) > 2
  /\ \E c \in Coords : probability.num[c] > 0 /\ c = <<call.arg[1], call.arg[2]>>
  /\ \E c \in Coords : probability.num[c] = 0
  /\ SumOver(probability.num, Coords) = probability.den

\* C23: when the weighted sum of prior times likelihood is below 1e-12 (an
\* all-zero prior), apply_bayes_update sets every cell's probability to
\* 1/(N*N), raises nothing, and the probabilities sum to 1.
C23_BayesReset ==
  [][(call'.name = "apply_bayes_update"
        /\ BelowEps(WeightedSum(probability, call'.arg), probability.den * 100))
       => /\ \A c \in Coords :
               probability'.num[c] * grid_size * grid_size = probability'.den
          /\ probability'.den > 0
          /\ SumOver(probability'.num, Coords) = probability'.den
          /\ raised' = "none"]_vars

\* C23 witness: after an update every cell, the cells off the prior's
\* support included, has probability 1/(N*N).
C23_Witness ==
  /\ call.name = "apply_bayes_update"
  /\ \A c \in Coords : probability.num[c] * grid_size * grid_size = probability.den
  /\ probability.den > 0

\* C31 as claimed: after every completed inquire_cell, every inquired cell
\* other than the ghost's current cell has probability 0, also after a
\* relocation and after the uniform fallback.
C31_Orig ==
  call.name = "inquire_cell"
    => \A c \in Coords : (inquired[c] /\ c # ghost) => probability.num[c] = 0

\* C32: in every reachable state 0 <= moves_left <= 3 and the ghost is inside
\* the grid; within a game moves_left never increases and it decreases, by
\* exactly 1, in exactly those calls in which the ghost's position changes;
\* so the position changes of a game number 3 - moves_left, at most 3.
C32_MovesBudget ==
  /\ [](/\ 0 <= moves_left /\ moves_left <= MOVES_LEFT_DEFAULT
        /\ ghost \in Coords
        /\ relocations = MOVES_LEFT_DEFAULT - moves_left
        /\ relocations <= MOVES_LEFT_DEFAULT)
  /\ [][call'.name # "restart_game"
         => /\ moves_left' <= moves_left
            /\ ghost' # ghost <=> moves_left' = moves_left - 1
            /\ ghost' = ghost <=> moves_left' = moves_left]_vars

\* C32 witness: the third position change of a game has just used up the
\* budget.
C32_Witness ==
  /\ call.name = "inquire_cell" /\ ret = "True"
  /\ moves_left = 0 /\ relocations = MOVES_LEFT_DEFAULT
  /\ ghost \in Coords /\ ghost # call.arg

\* C33: once the ghost can no longer move (moves_left = 0: in game_logic.py
\* after three relocations, in game_logic_no_movement.py from the start), an
\* inquire_cell on the ghost's cell pins it: on return and after every later
\* inquire_cell of the game, possible_positions is {ghost position}, the
\* ghost's cell has probability 1 and every other cell 0.  (No ghost moves
\* onto an inquired cell, so the ghost's cell is inquired exactly when an
\* inquire_cell on it has completed.)
C33_Pinned ==
  /\ (moves_left = 0 /\ inquired[ghost])
       => (possible_positions = {ghost} /\ IsPoint(probability, ghost))
  /\ twin.moves_left = 0
  /\ twin.inquired[twin.ghost]
       => (twin.possible_positions = {twin.ghost} /\ IsPoint(twin.probability, twin.ghost))

\* C33 witness: both ghosts were pinned by earlier calls, the first one after
\* its third relocation, and the last call inquired another cell.
C33_Witness ==
  /\ call.name = "inquire_cell" /\ call.arg # ghost /\ call.arg # twin.ghost
  /\ moves_left = 0 /\ relocations = MOVES_LEFT_DEFAULT /\ inquired[ghost]
  /\ possible_positions = {ghost} /\ IsPoint(probability, ghost)
  /\ twin.inquired[twin.ghost]
  /\ twin.possible_positions = {twin.ghost} /\ IsPoint(twin.probability, twin.ghost)

\* C34: the colour inquire_cell writes to the inquired cell is decided by
\* the ghost's position at the start of the call: red iff the cell is the
\* ghost's, orange iff its Chebyshev distance to the ghost is exactly 1, green
\* iff that distance is at least 2; an inquired cell is never yellow or
\* neutral.
C34_ColourAtCallStart ==
  /\ [](\A c \in Coords : inquired[c] => color[c] \in {"red", "orange", "green"})
  /\ [][(call'.name = "inquire_cell" /\ call'.arg \in Coords /\ ~inquired[call'.arg])
         => /\ color'[call'.arg] = "red" <=> call'.arg = ghost
            /\ color'[call'.arg] = "orange" <=> Chebyshev(call'.arg, ghost) = 1
            /\ color'[call'.arg] = "green" <=> Chebyshev(call'.arg, ghost) >= 2]_vars

\* C34 witness: the cell just inquired is red although the ghost, relocated
\* by the same call, is now two steps away from it.
C34_Witness ==
  /\ call.name = "inquire_cell" /\ ret = "True"
  /\ color[call.arg] = "red" /\ Chebyshev(call.arg, ghost) >= 2

\* The in-bounds cells at Chebyshev distance exactly 1 from a coordinate.
Neighbours8(cell) == {c \in Coords : Chebyshev(c, cell) = 1}

\* C35: apply_constraints(r, c, colour), for every prior possible_positions
\* P and in-range (r,c): red sets possible_positions to {(r,c)}; orange to P
\* intersected with the in-bounds 8 neighbours of (r,c); green to P minus
\* those neighbours and (r,c) itself; so for orange and green the new set is
\* a subset of P; any other colour leaves P unchanged.
C35_ApplyConstraints ==
  [][(call'.name = "apply_constraints" /\ <<call'.arg[1], call'.arg[2]>> \in Coords)
       => LET cell == <<call'.arg[1], call'.arg[2]>>
              clr == call'.arg[3]
          IN /\ clr = "red" => possible_positions' = {cell}
             /\ clr = "orange"
                  => possible_positions' = possible_positions \cap Neighbours8(cell)
             /\ clr = "green"
                  => possible_positions' = possible_positions \ (Neighbours8(cell) \cup {cell})
             /\ clr \in {"orange", "green"} => possible_positions' \subseteq possible_positions
             /\ clr \notin {"red", "orange", "green"}
                  => possible_positions' = possible_positions]_vars

\* C35 witness: an orange call left some, not all, of the neighbours of its
\* cell.
C35_Witness ==
  /\ call.name = "apply_constraints" /\ call.arg[3] = "orange"
  /\ <<call.arg[1], call.arg[2]>> \in Coords
  /\ possible_positions # {}
  /\ possible_positions \subseteq Neighbours8(<<call.arg[1], call.arg[2]>>)
  /\ possible_positions # Neighbours8(<<call.arg[1], call.arg[2]>>)

\* C36: after every completed inquire_cell (and after construction), every
\* cell whose coordinate is not a member of possible_positions has probability
\* exactly 0.
C36_ZeroOutsidePossible ==
  \A c \in Coords \ possible_positions : probability.num[c] = 0

\* C36 witness: after a relocation had reset possible_positions, an inquiry
\* that did not move the ghost narrowed the set to several cells; the cells
\* left out are at 0.
C36_Witness ==
  /\ call.name = "inquire_cell" /\ ret = "False" /\ relocations >= 1
  /\ Cardinality(possible_positions) >= 2
  /\ Cardinality(Coords \ possible_positions) >= 2
  /\ \A c \in Coords \ possible_positions : probability.num[c] = 0
  /\ \A c \in possible_positions : probability.num[c] > 0

\* The total apply_region_based_probabilities computes after zeroing and
\* re-weighting, as the pair <<n, d>>: the cells of possible_positions count
\* 1.5 times within one step of the ghost and 0.8 times elsewhere.
WeightedTotal(P, pp, g) ==
  <<SumOver([c \in Coords |->
               IF c \notin pp THEN 0
               ELSE IF Chebyshev(c, g) <= 1 THEN P.num[c] * REGION_BOOST_TENTHS
               ELSE P.num[c] * OUTSIDE_DECREASE_TENTHS], Coords),
    P.den * TENTHS>>

\* C37: when the total probability after zeroing and re-weighting is below
\* 1e-12 and possible_positions is not empty, apply_region_based_probabilities
\* returns with probability 1/|possible_positions| on every cell of
\* possible_positions and 0 on every other cell, and raises nothing.
C37_UniformFallback ==
  [][(/\ call'.name = "apply_region_based_probabilities"
      /\ possible_positions # {}
      /\ LET total == WeightedTotal(probability, possible_positions, ghost)
         IN BelowEps(total[1], total[2]))
       => /\ UniformOn(probability', possible_positions)
          /\ raised' = "none"]_vars

\* C37 witness: after a call the probabilities are uniform on a
\* possible_positions that holds the ghost's cell and a cell two steps from
\* it, which the weights 1.5 and 0.8 would have told apart had the prior put
\* any mass on the set.
C37_Witness ==
  /\ call.name = "apply_region_based_probabilities"
  /\ ghost \in possible_positions
  /\ \E c \in possible_positions : Chebyshev(c, ghost) >= 2
  /\ Cardinality(possible_positions) < Cardinality(Coords)
  /\ UniformOn(probability, possible_positions)

\* C38 as claimed: every coordinate the ghost occupies, at the start of a
\* game or after a relocation, has a cell button in the GameWindow (so that a
\* burst attempt on the ghost's cell can be clicked).
C38_Orig == ghost \in ButtonCoords

====
